---- MODULE Spec2Model ----
(***************************************************************************)
(* State-machine model of the chat front end:                              *)
(*   - MainContainer (src/src/components/MainContainer.tsx): chat mode,    *)
(*     sidebar and team-menu visibility, payload hand-over;                *)
(*   - GroupChat (src/unnamed/part_000): send pipeline, summarize, search, *)
(*     reply state, per-message visualization state, scroll-to-bottom and  *)
(*     mark-as-seen decisions.                                             *)
(* Strings whose characters matter (input text, message content) are       *)
(* sequences of one-character strings.  Optional structured values are     *)
(* sequences of length 0 (null) or 1.                                      *)
(***************************************************************************)
EXTENDS Integers, Sequences, FiniteSets, TLC

\* ------------------------------------------------------------------ bounds
MaxTextLen == 1        \* longest text typed into an input box
MaxInFlight == 2       \* unsettled sendMessage calls tracked at once
MaxSearches == 2       \* unsettled searchMessages calls tracked at once
MaxGen == 2            \* unsettled generateVisualization calls per message
LongLen == 150         \* longest message content offered to handleReply
MaxMsgs == 2           \* longest message list

\* --------------------------------------------------------- program constants
SnippetLimit == 100
NearBottom == 100         \* isNearBottom threshold
AtBottom == 50            \* isAtBottom threshold
ScrollAttemptCount == 4   \* delayed scroll attempts started on mount

Null == "null"
None == << >>
Some(x) == << x >>

ChatModes == {"reports", "private", "team"}
ConvIds == {"c1", "c2"}
MsgIds == {"m1", "m2"}
Chars == {"a", " "}
Images == {"img1"}
UserNames == {"alice", "bob"}
Timestamps == {"t1", "t2"}
Periods == {"24hours", "7days", "30days"}
Ellipsis == << ".", ".", "." >>

VARIABLES
  \* MainContainer
  sidebarOpen, chatMode, conversationToLoad, shouldStartNewChat, showTeamMenu,
  \* GroupChat: send pipeline, reply, summarize
  inputValue, selectedImage, replyState, showSummarizeOptions,
  \* useGroupChat collaborator
  error, fetching, sendCalls,
  \* GroupChat: search
  searchInput, searchResults, isSearching, showSearchResults, searchCalls,
  \* GroupChat: visualization
  visualizationStates, genCalls, vizData, currentVisualization,
  \* GroupChat: message list, scroll container, notifications
  messages, hasMoreMessages, loadPhase, atTop, distance, isTabActive,
  hasScrolledToBottom, effectsRun, scrollAttempts, scrollCmds, seenCalls,
  \* the handler that ran last, with its argument
  lastOp

mainVars == << sidebarOpen, chatMode, conversationToLoad, shouldStartNewChat,
               showTeamMenu >>
sendVars == << inputValue, selectedImage, replyState, showSummarizeOptions >>
hookVars == << error, fetching, sendCalls >>
searchVars == << searchInput, searchResults, isSearching, showSearchResults,
                 searchCalls >>
vizVars == << visualizationStates, genCalls, vizData, currentVisualization >>
scrollVars == << messages, hasMoreMessages, loadPhase, atTop, distance,
                 isTabActive, hasScrolledToBottom, effectsRun, scrollAttempts,
                 scrollCmds, seenCalls >>
vars == << mainVars, sendVars, hookVars, searchVars, vizVars, scrollVars, lastOp >>

\* ------------------------------------------------------------- initial state
IdleReply == [ isReplying |-> FALSE, messageId |-> Null,
               messageSnippet |-> None, originalMessage |-> None ]

Absent == [ present |-> FALSE, isGenerating |-> FALSE, content |-> Null,
            hasVisualization |-> FALSE ]

\* Everything but the message list and the scroll container.
InitBase(mode) ==
  /\ sidebarOpen = FALSE
  /\ chatMode = mode
  /\ conversationToLoad = Null
  /\ shouldStartNewChat = FALSE
  /\ showTeamMenu = FALSE
  /\ inputValue = << >>
  /\ selectedImage = Null
  /\ replyState = IdleReply
  /\ showSummarizeOptions = FALSE
  /\ error = Null
  /\ fetching = TRUE
  /\ sendCalls = << >>
  /\ searchInput = << >>
  /\ searchResults = << >>
  /\ isSearching = FALSE
  /\ showSearchResults = FALSE
  /\ searchCalls = << >>
  /\ visualizationStates = [ m \in MsgIds |-> Absent ]
  /\ genCalls = [ m \in MsgIds |-> 0 ]
  /\ vizData = [ m \in MsgIds |-> FALSE ]
  /\ currentVisualization = Null
  /\ lastOp = << "mount", Null >>

\* GroupChat rendered for the first time, its effects not yet run: the
\* container is at scrollTop 0, d is scrollHeight - clientHeight.
ScrollStart(msgs, more, d, tab) ==
  /\ messages = msgs
  /\ hasMoreMessages = more
  /\ loadPhase = "idle"
  /\ atTop = TRUE
  /\ distance = d
  /\ isTabActive = tab
  /\ hasScrolledToBottom = FALSE
  /\ effectsRun = FALSE
  /\ scrollAttempts = 0
  /\ scrollCmds = { }
  /\ seenCalls = None

InitIn(mode) == InitBase(mode) /\ ScrollStart(<< >>, FALSE, 0, TRUE)

\* MainContainer after construction.
Init == InitIn("reports")
\* GroupChat after construction: MainContainer has switched to team mode.
InitTeam == InitIn("team")

\* ============================================================ MainContainer

\* useEffect on [chatMode]: runs after a render in which chatMode changed.
ChatModeEffect(old, new, sb) ==
  IF new # old /\ new = "private" THEN FALSE ELSE sb

\* Header onToggleSidebar; the toggle is offered in private mode only.
onToggleSidebar ==
  /\ chatMode = "private"
  /\ sidebarOpen' = ~sidebarOpen
  /\ lastOp' = << "toggleSidebar", Null >>
  /\ UNCHANGED << chatMode, conversationToLoad, shouldStartNewChat, showTeamMenu >>
  /\ UNCHANGED << sendVars, hookVars, searchVars, vizVars >>
  /\ UNCHANGED scrollVars

\* ChatSidebar onClose / ChatContainer onCloseSidebar.
onCloseSidebar ==
  /\ chatMode = "private"
  /\ sidebarOpen' = FALSE
  /\ lastOp' = << "closeSidebar", Null >>
  /\ UNCHANGED << chatMode, conversationToLoad, shouldStartNewChat, showTeamMenu >>
  /\ UNCHANGED << sendVars, hookVars, searchVars, vizVars >>
  /\ UNCHANGED scrollVars

\* ChatModeToggle onModeChange={setChatMode}, followed by the chatMode effect.
onModeChange(m) ==
  /\ chatMode' = m
  /\ sidebarOpen' = ChatModeEffect(chatMode, m, sidebarOpen)
  /\ lastOp' = << "modeChange", m >>
  /\ UNCHANGED << conversationToLoad, shouldStartNewChat, showTeamMenu >>
  /\ UNCHANGED << sendVars, hookVars, searchVars, vizVars >>
  /\ UNCHANGED scrollVars

handleLoadConversation(id) ==
  /\ chatMode = "private"
  /\ conversationToLoad' = id
  /\ sidebarOpen' = FALSE
  /\ lastOp' = << "loadConversation", id >>
  /\ UNCHANGED << chatMode, shouldStartNewChat, showTeamMenu >>
  /\ UNCHANGED << sendVars, hookVars, searchVars, vizVars >>
  /\ UNCHANGED scrollVars

handleStartNewConversation ==
  /\ chatMode = "private"
  /\ shouldStartNewChat' = TRUE
  /\ sidebarOpen' = FALSE
  /\ lastOp' = << "startNewConversation", Null >>
  /\ UNCHANGED << chatMode, conversationToLoad, showTeamMenu >>
  /\ UNCHANGED << sendVars, hookVars, searchVars, vizVars >>
  /\ UNCHANGED scrollVars

handleSwitchToPrivateChat(id) ==
  /\ chatMode = "team"
  /\ chatMode' = "private"
  /\ conversationToLoad' = id
  /\ sidebarOpen' = ChatModeEffect(chatMode, "private", sidebarOpen)
  /\ lastOp' = << "switchToPrivate", id >>
  /\ UNCHANGED << shouldStartNewChat, showTeamMenu >>
  /\ UNCHANGED << sendVars, hookVars, searchVars, vizVars >>
  /\ UNCHANGED scrollVars

handleToggleTeamMenu ==
  /\ showTeamMenu' = ~showTeamMenu
  /\ lastOp' = << "toggleTeamMenu", Null >>
  /\ UNCHANGED << sidebarOpen, chatMode, conversationToLoad, shouldStartNewChat >>
  /\ UNCHANGED << sendVars, hookVars, searchVars, vizVars >>
  /\ UNCHANGED scrollVars

onCloseTeamMenu ==
  /\ chatMode = "team"
  /\ showTeamMenu' = FALSE
  /\ lastOp' = << "closeTeamMenu", Null >>
  /\ UNCHANGED << sidebarOpen, chatMode, conversationToLoad, shouldStartNewChat >>
  /\ UNCHANGED << sendVars, hookVars, searchVars, vizVars >>
  /\ UNCHANGED scrollVars

onConversationLoaded ==
  /\ chatMode = "private"
  /\ conversationToLoad # Null
  /\ conversationToLoad' = Null
  /\ lastOp' = << "conversationLoaded", Null >>
  /\ UNCHANGED << sidebarOpen, chatMode, shouldStartNewChat, showTeamMenu >>
  /\ UNCHANGED << sendVars, hookVars, searchVars, vizVars >>
  /\ UNCHANGED scrollVars

onNewChatStarted ==
  /\ chatMode = "private"
  /\ shouldStartNewChat
  /\ shouldStartNewChat' = FALSE
  /\ lastOp' = << "newChatStarted", Null >>
  /\ UNCHANGED << sidebarOpen, chatMode, conversationToLoad, showTeamMenu >>
  /\ UNCHANGED << sendVars, hookVars, searchVars, vizVars >>
  /\ UNCHANGED scrollVars

NextMode ==
  \/ onToggleSidebar
  \/ onCloseSidebar
  \/ \E m \in ChatModes : onModeChange(m)
  \/ \E id \in ConvIds : handleLoadConversation(id)
  \/ handleStartNewConversation
  \/ \E id \in ConvIds : handleSwitchToPrivateChat(id)
  \/ handleToggleTeamMenu
  \/ onCloseTeamMenu
  \/ onConversationLoaded
  \/ onNewChatStarted

SpecMode == Init /\ [][NextMode]_vars

\* C1: whenever the chat mode changes from private to reports or team, the
\* sidebar is closed in the resulting state, whatever it was before.
C1_AwayFromPrivateClosesSidebar ==
  [][ (chatMode = "private" /\ chatMode' \in {"reports", "team"})
        => sidebarOpen' = FALSE ]_vars

\* ================================================================ GroupChat
\* GroupChat is rendered by MainContainer in team mode only.
Mounted == chatMode = "team"

RECURSIVE SeqsUpTo(_, _)
SeqsUpTo(S, n) ==
  IF n = 0 THEN { << >> }
  ELSE LET shorter == SeqsUpTo(S, n - 1)
       IN  shorter \cup { Append(s, c) : s \in { t \in shorter : Len(t) = n - 1 }, c \in S }

Texts == SeqsUpTo(Chars, MaxTextLen)

\* String.prototype.trim: drop leading and trailing white space.
RECURSIVE TrimLeft(_)
TrimLeft(s) ==
  IF s = << >> THEN << >>
  ELSE IF Head(s) = " " THEN TrimLeft(Tail(s)) ELSE s

RECURSIVE TrimRight(_)
TrimRight(s) ==
  IF s = << >> THEN << >>
  ELSE IF s[Len(s)] = " " THEN TrimRight(SubSeq(s, 1, Len(s) - 1)) ELSE s

Trim(s) == TrimRight(TrimLeft(s))

\* s with its i-th element removed.
RemoveAt(s, i) == SubSeq(s, 1, i - 1) \o SubSeq(s, i + 1, Len(s))

SendErr == "Failed to send message. Please try again."
SearchErr == "Search failed. Please try again."

\* useGroupChat: the reactive loading flag is up during the initial fetch and
\* while a sendMessage call has not settled.
loading == fetching \/ sendCalls # << >>

\* useGroupChat: the initial fetch of the message list completes.
fetchDone ==
  /\ fetching
  /\ fetching' = FALSE
  /\ lastOp' = << "fetchDone", Null >>
  /\ UNCHANGED << error, sendCalls >>
  /\ UNCHANGED << mainVars, sendVars, searchVars, vizVars >>
  /\ UNCHANGED scrollVars

\* MentionInput onChange={setInputValue}
setInputValue(t) ==
  /\ inputValue' = t
  /\ lastOp' = << "setInputValue", Null >>
  /\ UNCHANGED << selectedImage, replyState, showSummarizeOptions >>
  /\ UNCHANGED << mainVars, hookVars, searchVars, vizVars >>
  /\ UNCHANGED scrollVars

MaxImageBytes == 10 * 1024 * 1024
FileSizes == { MaxImageBytes, MaxImageBytes + 1 }

\* handleImageUpload with the FileReader onload callback.
handleImageUpload(img, size) ==
  /\ selectedImage' = IF size > MaxImageBytes THEN selectedImage ELSE img
  /\ lastOp' = << "imageUpload", Null >>
  /\ UNCHANGED << inputValue, replyState, showSummarizeOptions >>
  /\ UNCHANGED << mainVars, hookVars, searchVars, vizVars >>
  /\ UNCHANGED scrollVars

\* "Remove image" button of the preview.
removeImage ==
  /\ selectedImage # Null
  /\ selectedImage' = Null
  /\ lastOp' = << "removeImage", Null >>
  /\ UNCHANGED << inputValue, replyState, showSummarizeOptions >>
  /\ UNCHANGED << mainVars, hookVars, searchVars, vizVars >>
  /\ UNCHANGED scrollVars

\* Early return of handleSendMessage.
SendRejected_NoLoading(text, image, busy) == Trim(text) = << >> /\ image = Null
SendRejected_NoTrim(text, image, busy) == (text = << >> /\ image = Null) \/ busy
SendRejected(text, image, busy) == (Trim(text) = << >> /\ image = Null) \/ busy

\* Arguments handleSendMessage passes to sendMessage.
SendArgs_Raw(text, image, reply) ==
  [ origin |-> "send", text |-> text, image |-> image,
    reply |-> IF reply.isReplying THEN reply.originalMessage ELSE None ]
SendArgs(text, image, reply) ==
  [ origin |-> "send", text |-> Trim(text), image |-> image,
    reply |-> IF reply.isReplying THEN reply.originalMessage ELSE None ]

\* Reply state handleSendMessage and cancelReply install.
ClearedReply_KeepsTarget(reply) == [ reply EXCEPT !.isReplying = FALSE ]
ClearedReply(reply) == IdleReply

\* handleSendMessage up to the await of sendMessage.
handleSendMessage ==
  /\ IF SendRejected(inputValue, selectedImage, loading)
     THEN /\ lastOp' = << "sendRejected", Null >>
          /\ UNCHANGED << sendVars, hookVars >>
     ELSE /\ Len(sendCalls) < MaxInFlight
          /\ inputValue' = << >>
          /\ selectedImage' = Null
          /\ replyState' = ClearedReply(replyState)
          /\ sendCalls' = Append(sendCalls, SendArgs(inputValue, selectedImage, replyState))
          /\ lastOp' = << "sendAccepted", Null >>
          /\ UNCHANGED << showSummarizeOptions, error, fetching >>
  /\ UNCHANGED << mainVars, searchVars, vizVars >>
  /\ UNCHANGED scrollVars

\* handleSummarizeChat: opens the options modal and closes the team menu.
handleSummarizeChat ==
  /\ showTeamMenu
  /\ showSummarizeOptions' = TRUE
  /\ showTeamMenu' = FALSE
  /\ lastOp' = << "summarizeChat", Null >>
  /\ UNCHANGED << inputValue, selectedImage, replyState, hookVars,
                  sidebarOpen, chatMode, conversationToLoad, shouldStartNewChat >>
  /\ UNCHANGED << searchVars, vizVars >>
  /\ UNCHANGED scrollVars

\* Close button of the summarize modal.
closeSummarizeOptions ==
  /\ showSummarizeOptions
  /\ showSummarizeOptions' = FALSE
  /\ lastOp' = << "closeSummarize", Null >>
  /\ UNCHANGED << inputValue, selectedImage, replyState >>
  /\ UNCHANGED << mainVars, hookVars, searchVars, vizVars >>
  /\ UNCHANGED scrollVars

Prompt(period) == << period >>

\* handleSummarizeWithPeriod up to the await of sendMessage.
handleSummarizeWithPeriod(period) ==
  /\ showSummarizeOptions
  /\ Len(sendCalls) < MaxInFlight
  /\ showSummarizeOptions' = FALSE
  /\ sendCalls' = Append(sendCalls, [ origin |-> "summarize", text |-> Prompt(period),
                                      image |-> Null, reply |-> None ])
  /\ lastOp' = << "summarize", period >>
  /\ UNCHANGED << inputValue, selectedImage, replyState, error, fetching >>
  /\ UNCHANGED << mainVars, searchVars, vizVars >>
  /\ UNCHANGED scrollVars

\* Error state after a sendMessage call of the given origin was rejected:
\* handleSendMessage catches and calls setError, handleSummarizeWithPeriod
\* has no handler.
ErrorAfterSendFailure(origin, err) == IF origin = "send" THEN SendErr ELSE err

\* The state the continuations of sendMessage and searchMessages work on.
ChatState ==
  [ inputValue |-> inputValue, selectedImage |-> selectedImage,
    replyState |-> replyState, error |-> error, sendCalls |-> sendCalls,
    searchCalls |-> searchCalls, searchResults |-> searchResults,
    showSearchResults |-> showSearchResults, isSearching |-> isSearching ]

\* What the continuation of the i-th unsettled sendMessage call leaves:
\* lines 223-232 of handleSendMessage, nothing for handleSummarizeWithPeriod.
AfterSendSettled_ClearsError(st, i, ok) ==
  [ st EXCEPT !.sendCalls = RemoveAt(@, i),
              !.error = IF ok THEN Null
                        ELSE ErrorAfterSendFailure(st.sendCalls[i].origin, @) ]
AfterSendSettled(st, i, ok) ==
  [ st EXCEPT !.sendCalls = RemoveAt(@, i),
              !.error = IF ok THEN @
                        ELSE ErrorAfterSendFailure(st.sendCalls[i].origin, @) ]

\* The i-th unsettled sendMessage call settles.  The deferred scrollToBottom
\* of lines 226-228 only moves the viewport, which the scroll behaviours let
\* move freely.
sendSettled(i, ok) ==
  /\ i \in 1..Len(sendCalls)
  /\ LET st == AfterSendSettled(ChatState, i, ok)
     IN  /\ sendCalls' = st.sendCalls
         /\ error' = st.error
         /\ inputValue' = st.inputValue
         /\ selectedImage' = st.selectedImage
         /\ replyState' = st.replyState
         /\ searchCalls' = st.searchCalls
         /\ searchResults' = st.searchResults
         /\ showSearchResults' = st.showSearchResults
         /\ isSearching' = st.isSearching
  /\ lastOp' = << IF ok THEN "sendResolved" ELSE "sendFailed", sendCalls[i].origin >>
  /\ UNCHANGED << showSummarizeOptions, fetching, searchInput >>
  /\ UNCHANGED << mainVars, vizVars >>
  /\ UNCHANGED scrollVars

\* "Dismiss" button of the error banner.
dismissError ==
  /\ error # Null
  /\ error' = Null
  /\ lastOp' = << "dismissError", Null >>
  /\ UNCHANGED << fetching, sendCalls >>
  /\ UNCHANGED << mainVars, sendVars, searchVars, vizVars >>
  /\ UNCHANGED scrollVars

\* -------------------------------------------------------------- reply state
Snippet_OffByOne(content) ==
  IF Len(content) >= SnippetLimit
  THEN SubSeq(content, 1, SnippetLimit) \o Ellipsis
  ELSE content
Snippet(content) ==
  IF Len(content) > SnippetLimit
  THEN SubSeq(content, 1, SnippetLimit) \o Ellipsis
  ELSE content

handleReply(messageId, messageContent, userName, timestamp) ==
  /\ replyState' = [ isReplying |-> TRUE,
                     messageId |-> messageId,
                     messageSnippet |-> Some(Snippet(messageContent)),
                     originalMessage |-> Some([ id |-> messageId,
                                                content |-> messageContent,
                                                userName |-> userName,
                                                timestamp |-> timestamp ]) ]
  /\ lastOp' = << "reply", messageId, messageContent >>
  /\ UNCHANGED << inputValue, selectedImage, showSummarizeOptions >>
  /\ UNCHANGED << mainVars, hookVars, searchVars, vizVars >>
  /\ UNCHANGED scrollVars

cancelReply ==
  /\ replyState.isReplying
  /\ replyState' = ClearedReply(replyState)
  /\ lastOp' = << "cancelReply", Null >>
  /\ UNCHANGED << inputValue, selectedImage, showSummarizeOptions >>
  /\ UNCHANGED << mainVars, hookVars, searchVars, vizVars >>
  /\ UNCHANGED scrollVars

\* Message contents: position i holds "a", every third position a blank.
MkContent(n) == [ i \in 1..n |-> IF i % 3 = 0 THEN " " ELSE "a" ]
ContentLens == { 0, 1, SnippetLimit \div 2, SnippetLimit - 1, SnippetLimit,
                 SnippetLimit + 1, LongLen }
Contents == { MkContent(n) : n \in ContentLens }
              \cup { [ i \in 1..n |-> "b" ] : n \in ContentLens }
SendContents == { MkContent(SnippetLimit + 1) }
\* The three period buttons differ in the prompt text only; the behaviours
\* press this one.
SendPeriods == { p \in Periods : p = "24hours" }

\* ------------------------------------------------- send pipeline behaviours
NextSend ==
  \/ \E t \in Texts : setInputValue(t)
  \/ \E img \in Images, size \in FileSizes : handleImageUpload(img, size)
  \/ removeImage
  \/ \E m \in MsgIds, c \in SendContents : handleReply(m, c, "alice", "t1")
  \/ cancelReply
  \/ handleSendMessage
  \/ handleSummarizeChat
  \/ closeSummarizeOptions
  \/ \E p \in SendPeriods : handleSummarizeWithPeriod(p)
  \/ \E i \in 1..MaxInFlight, ok \in BOOLEAN : sendSettled(i, ok)
  \/ fetchDone
  \/ dismissError
  \/ Mounted /\ handleToggleTeamMenu
  \/ onCloseTeamMenu

SpecSend == InitTeam /\ [][NextSend]_vars

\* reply state machine on its own, over the full range of contents
NextReply ==
  \/ \E m \in MsgIds, c \in Contents, u \in UserNames, t \in Timestamps :
       handleReply(m, c, u, t)
  \/ cancelReply

SpecReply == InitTeam /\ [][NextReply]_vars

\* ------------------------------------------------------------------- search
ResultSets == { << >>, << "m1" >>, << "m1", "m2" >> }

\* onChange of the search box of the team menu.
setSearchInput(t) ==
  /\ showTeamMenu
  /\ searchInput' = t
  /\ lastOp' = << "setSearchInput", Null >>
  /\ UNCHANGED << searchResults, isSearching, showSearchResults, searchCalls >>
  /\ UNCHANGED << mainVars, sendVars, hookVars, vizVars >>
  /\ UNCHANGED scrollVars

\* handleSearch up to the await of searchMessages.
handleSearch(query) ==
  IF Trim(query) = << >>
  THEN /\ lastOp' = << "searchIgnored", query >>
       /\ UNCHANGED searchVars
  ELSE /\ Len(searchCalls) < MaxSearches
       /\ isSearching' = TRUE
       /\ searchCalls' = Append(searchCalls, query)
       /\ lastOp' = << "search", query >>
       /\ UNCHANGED << searchInput, searchResults, showSearchResults >>

\* onKeyPress of the search box: Enter with a non-blank input.
onSearchKeyPress ==
  /\ showTeamMenu
  /\ IF Trim(searchInput) # << >>
     THEN handleSearch(searchInput)
     ELSE /\ lastOp' = << "searchKeyIgnored", Null >>
          /\ UNCHANGED searchVars
  /\ UNCHANGED << mainVars, sendVars, hookVars, vizVars >>
  /\ UNCHANGED scrollVars

\* Error state after a searchMessages call was rejected.
ErrorAfterSearchFailure(err) == SearchErr

\* What the continuation of the i-th unsettled searchMessages call leaves:
\* try / catch / finally of handleSearch.
AfterSearchSettled_ClearsOnFailure(st, i, ok, results) ==
  [ st EXCEPT !.searchCalls = RemoveAt(@, i),
              !.searchResults = IF ok THEN results ELSE << >>,
              !.showSearchResults = ok,
              !.error = IF ok THEN @ ELSE ErrorAfterSearchFailure(@),
              !.isSearching = FALSE ]
AfterSearchSettled(st, i, ok, results) ==
  [ st EXCEPT !.searchCalls = RemoveAt(@, i),
              !.searchResults = IF ok THEN results ELSE @,
              !.showSearchResults = IF ok THEN TRUE ELSE @,
              !.error = IF ok THEN @ ELSE ErrorAfterSearchFailure(@),
              !.isSearching = FALSE ]

\* The i-th unsettled searchMessages call settles.
searchSettled(i, ok, results) ==
  /\ i \in 1..Len(searchCalls)
  /\ LET st == AfterSearchSettled(ChatState, i, ok, results)
     IN  /\ sendCalls' = st.sendCalls
         /\ error' = st.error
         /\ inputValue' = st.inputValue
         /\ selectedImage' = st.selectedImage
         /\ replyState' = st.replyState
         /\ searchCalls' = st.searchCalls
         /\ searchResults' = st.searchResults
         /\ showSearchResults' = st.showSearchResults
         /\ isSearching' = st.isSearching
  /\ lastOp' = IF ok THEN << "searchResolved", Null, results >>
                     ELSE << "searchFailed", Null >>
  /\ UNCHANGED << showSummarizeOptions, fetching, searchInput >>
  /\ UNCHANGED << mainVars, vizVars >>
  /\ UNCHANGED scrollVars

\* Close button of the search results modal.
closeSearchResults ==
  /\ showSearchResults
  /\ showSearchResults' = FALSE
  /\ searchResults' = << >>
  /\ searchInput' = << >>
  /\ lastOp' = << "closeSearchResults", Null >>
  /\ UNCHANGED << isSearching, searchCalls >>
  /\ UNCHANGED << mainVars, sendVars, hookVars, vizVars >>
  /\ UNCHANGED scrollVars

\* What is typed into the search box: nothing, a blank, a letter.
Queries == { << >>, << " " >>, << "a" >> }

\* ------------------------------------------------------ search on its own
\* handleSearch called with any query, as its contract allows.
invokeSearch(query) ==
  /\ Mounted
  /\ handleSearch(query)
  /\ UNCHANGED << mainVars, sendVars, hookVars, vizVars >>
  /\ UNCHANGED scrollVars

NextSearch ==
  \/ Mounted /\ handleToggleTeamMenu
  \/ \E q \in Queries : invokeSearch(q)
  \/ onCloseTeamMenu
  \/ \E t \in Queries : setSearchInput(t)
  \/ onSearchKeyPress
  \/ \E i \in 1..MaxSearches, ok \in BOOLEAN, r \in ResultSets : searchSettled(i, ok, r)
  \/ closeSearchResults
  \/ dismissError

SpecSearch == InitTeam /\ [][NextSearch]_vars

\* ------------------------------------------- a send racing with a search
NextRace ==
  \/ fetchDone
  \/ \E t \in Texts : setInputValue(t)
  \/ handleSendMessage
  \/ \E i \in 1..MaxInFlight, ok \in BOOLEAN : sendSettled(i, ok)
  \/ Mounted /\ handleToggleTeamMenu
  \/ \E t \in Queries : setSearchInput(t)
  \/ onSearchKeyPress
  \/ \E i \in 1..MaxSearches, ok \in BOOLEAN, r \in ResultSets : searchSettled(i, ok, r)

SpecRace == InitTeam /\ [][NextRace]_vars

\* ------------------------------ send, summarize and search running together
NextChat ==
  \/ \E t \in Texts : setInputValue(t)
  \/ handleSendMessage
  \/ handleSummarizeChat
  \/ closeSummarizeOptions
  \/ \E p \in SendPeriods : handleSummarizeWithPeriod(p)
  \/ \E i \in 1..MaxInFlight, ok \in BOOLEAN : sendSettled(i, ok)
  \/ fetchDone
  \/ dismissError
  \/ Mounted /\ handleToggleTeamMenu
  \/ onCloseTeamMenu
  \/ \E t \in Queries : setSearchInput(t)
  \/ onSearchKeyPress
  \/ \E i \in 1..MaxSearches, ok \in BOOLEAN, r \in ResultSets : searchSettled(i, ok, r)
  \/ closeSearchResults

SpecChat == InitTeam /\ [][NextChat]_vars

\* ------------------------------------------------------------ visualization
Generating == [ present |-> TRUE, isGenerating |-> TRUE, content |-> Null,
                hasVisualization |-> FALSE ]
Ready_StillGenerating ==
  [ present |-> TRUE, isGenerating |-> TRUE, content |-> "generated",
    hasVisualization |-> TRUE ]
Ready == [ present |-> TRUE, isGenerating |-> FALSE, content |-> "generated",
           hasVisualization |-> TRUE ]
Failed_StillGenerating ==
  [ present |-> TRUE, isGenerating |-> TRUE, content |-> Null,
    hasVisualization |-> FALSE ]
Failed == [ present |-> TRUE, isGenerating |-> FALSE, content |-> Null,
            hasVisualization |-> FALSE ]

\* The full-screen VisualizationView replaces the message list.
VisualizationShown ==
  currentVisualization # Null /\ vizData[currentVisualization]

\* useGroupChat: a message row arrives with its visualization_data filled in.
vizDataArrives(m) ==
  /\ ~vizData[m]
  /\ vizData' = [ vizData EXCEPT ![m] = TRUE ]
  /\ lastOp' = << "vizDataArrives", m >>
  /\ UNCHANGED << visualizationStates, genCalls, currentVisualization >>
  /\ UNCHANGED << mainVars, sendVars, hookVars, searchVars >>
  /\ UNCHANGED scrollVars

\* handleCreateVisualization up to the await of generateVisualization.
handleCreateVisualization(m) ==
  /\ ~VisualizationShown
  /\ genCalls[m] < MaxGen
  /\ visualizationStates' = [ visualizationStates EXCEPT ![m] = Generating ]
  /\ genCalls' = [ genCalls EXCEPT ![m] = @ + 1 ]
  /\ lastOp' = << "createVisualization", m >>
  /\ UNCHANGED << vizData, currentVisualization >>
  /\ UNCHANGED << mainVars, sendVars, hookVars, searchVars >>
  /\ UNCHANGED scrollVars

\* One unsettled generateVisualization call for m settles.
genSettled(m, ok) ==
  /\ genCalls[m] > 0
  /\ genCalls' = [ genCalls EXCEPT ![m] = @ - 1 ]
  /\ visualizationStates' =
       [ visualizationStates EXCEPT ![m] = IF ok THEN Ready ELSE Failed ]
  /\ lastOp' = << IF ok THEN "genResolved" ELSE "genFailed", m >>
  /\ UNCHANGED << vizData, currentVisualization >>
  /\ UNCHANGED << mainVars, sendVars, hookVars, searchVars >>
  /\ UNCHANGED scrollVars

\* Whether handleViewVisualization reaches a showVisualization call.
ViewShows(m) ==
  \/ vizData[m]
  \/ /\ visualizationStates[m].present
     /\ visualizationStates[m].content # Null
     /\ visualizationStates[m].content # "generated"

\* useVisualization: showVisualization makes m the current visualization.
showVisualization(m) == currentVisualization' = m

handleViewVisualization(m) ==
  /\ ~VisualizationShown
  /\ IF ViewShows(m) THEN showVisualization(m) ELSE UNCHANGED currentVisualization
  /\ lastOp' = << "view", m >>
  /\ UNCHANGED << visualizationStates, genCalls, vizData >>
  /\ UNCHANGED << mainVars, sendVars, hookVars, searchVars >>
  /\ UNCHANGED scrollVars

\* VisualizationView onBack={hideVisualization}
hideVisualization ==
  /\ VisualizationShown
  /\ currentVisualization' = Null
  /\ lastOp' = << "hideVisualization", Null >>
  /\ UNCHANGED << visualizationStates, genCalls, vizData >>
  /\ UNCHANGED << mainVars, sendVars, hookVars, searchVars >>
  /\ UNCHANGED scrollVars

NextViz ==
  \/ \E m \in MsgIds : vizDataArrives(m)
  \/ \E m \in MsgIds : handleCreateVisualization(m)
  \/ \E m \in MsgIds, ok \in BOOLEAN : genSettled(m, ok)
  \/ \E m \in MsgIds : handleViewVisualization(m)
  \/ hideVisualization

SpecViz == InitTeam /\ [][NextViz]_vars

\* ------------------------- searches and generations that eventually settle
\* The message whose "create visualization" button is pressed.
LiveMsgs == { "m1" }

NextLive ==
  \/ Mounted /\ handleToggleTeamMenu
  \/ \E t \in Queries : setSearchInput(t)
  \/ onSearchKeyPress
  \/ \E i \in 1..MaxSearches, ok \in BOOLEAN, r \in ResultSets : searchSettled(i, ok, r)
  \/ \E m \in LiveMsgs : handleCreateVisualization(m)
  \/ \E m \in LiveMsgs, ok \in BOOLEAN : genSettled(m, ok)

\* Every searchMessages and generateVisualization promise eventually settles.
CallsSettle ==
  /\ WF_vars(\E i \in 1..MaxSearches, ok \in BOOLEAN, r \in ResultSets : searchSettled(i, ok, r))
  /\ \A m \in MsgIds : WF_vars(\E ok \in BOOLEAN : genSettled(m, ok))

SpecLive == InitTeam /\ [][NextLive]_vars /\ CallsSettle

\* ================================================ GroupChat: scroll and seen
Users == { "me", "other" }
\* useAuth: user.id
CurrentUser == "me"
\* scrollHeight - scrollTop - clientHeight, on either side of both thresholds
Dists == { 49, 50, 99, 100 }

Msg(id, u) == [ id |-> id, user_id |-> u ]
InitialLists == { << >> } \cup { << Msg(0, u) >> : u \in Users }
NewestId(msgs) == msgs[Len(msgs)].id

\* useGroupChat: loadingMore is true from the start of a load of older
\* messages until the hook resets it.
loadingMore == loadPhase # "idle"

\* useEffect on [messages.length, scrollToBottom, hasScrolledToBottom]: the
\* inner condition holds whenever the outer one does.
LengthEffect(msgs, scrolled) ==
  IF Len(msgs) > 0
  THEN IF ~scrolled \/ Len(msgs) > 0 THEN { "auto" } ELSE { }
  ELSE { }

\* useEffect on [messages, loadingMore, scrollToBottom, user?.id]
NewMessageEffect(msgs, busy, d) ==
  IF Len(msgs) > 0 /\ ~busy
  THEN IF d < NearBottom \/ msgs[Len(msgs)].user_id = CurrentUser
       THEN { "smooth" } ELSE { }
  ELSE { }

\* Mount effect: markAsSeen when the tab is active and there are messages.
SeenOnMount(tab, msgs) ==
  IF tab /\ Len(msgs) > 0 THEN Some(NewestId(msgs)) ELSE None

\* handleScroll: markAsSeen when at the bottom, tab active, messages present.
SeenOnScroll_IgnoresTab(d, tab, msgs) ==
  IF d < AtBottom /\ Len(msgs) > 0 THEN Some(NewestId(msgs)) ELSE None
SeenOnScroll(d, tab, msgs) ==
  IF d < AtBottom /\ tab /\ Len(msgs) > 0 THEN Some(NewestId(msgs)) ELSE None

InitScroll ==
  /\ InitBase("team")
  /\ \E msgs \in InitialLists, more \in BOOLEAN, d \in { 0 } \cup Dists,
        tab \in BOOLEAN :
       /\ msgs = << >> => d = 0
       /\ ScrollStart(msgs, more, d, tab)

\* The three effects run after the first render, in declaration order.
mountEffects ==
  /\ Mounted
  /\ ~effectsRun
  /\ effectsRun' = TRUE
  /\ scrollCmds' = LengthEffect(messages, hasScrolledToBottom)
                     \cup NewMessageEffect(messages, loadingMore, distance)
  /\ hasScrolledToBottom' = IF Len(messages) > 0 THEN TRUE ELSE hasScrolledToBottom
  /\ scrollAttempts' = ScrollAttemptCount
  /\ seenCalls' = SeenOnMount(isTabActive, messages)
  /\ lastOp' = << "mountEffects", Null >>
  /\ UNCHANGED << messages, hasMoreMessages, loadPhase, atTop, distance, isTabActive >>
  /\ UNCHANGED << mainVars, sendVars, hookVars, searchVars, vizVars >>

\* One of the delayed scroll attempts of the mount effect fires.
scrollAttempt ==
  /\ Mounted
  /\ scrollAttempts > 0
  /\ scrollAttempts' = scrollAttempts - 1
  /\ scrollCmds' = { "auto" }
  /\ seenCalls' = None
  /\ lastOp' = << "scrollAttempt", Null >>
  /\ UNCHANGED << messages, hasMoreMessages, loadPhase, atTop, distance,
                  isTabActive, hasScrolledToBottom, effectsRun >>
  /\ UNCHANGED << mainVars, sendVars, hookVars, searchVars, vizVars >>

\* A message by user u is appended to the list; the render lays it out, which
\* leaves the viewport at distance d, no nearer to the bottom than before, and
\* the two effects on the message list run.
messageArrives(u, d) ==
  /\ Mounted
  /\ effectsRun
  /\ Len(messages) < MaxMsgs
  /\ d >= distance
  /\ messages' = Append(messages,
                        Msg(IF messages = << >> THEN 0 ELSE NewestId(messages) + 1, u))
  /\ distance' = d
  /\ scrollCmds' = LengthEffect(messages', hasScrolledToBottom)
                     \cup NewMessageEffect(messages', loadingMore, d)
  /\ hasScrolledToBottom' = TRUE
  /\ seenCalls' = None
  /\ lastOp' = << "messageArrives", u >>
  /\ UNCHANGED << hasMoreMessages, loadPhase, atTop, isTabActive, effectsRun,
                  scrollAttempts >>
  /\ UNCHANGED << mainVars, sendVars, hookVars, searchVars, vizVars >>

\* onScroll of the messages container, the viewport having moved to
\* scrollTop = 0 or not (top) and to distance d from the bottom.
handleScroll(top, d) ==
  /\ Mounted
  /\ effectsRun
  /\ atTop' = top
  /\ distance' = d
  /\ LET startLoad == top /\ hasMoreMessages /\ ~loadingMore /\ ~loading
     IN  /\ loadPhase' = IF startLoad THEN "fetching" ELSE loadPhase
         /\ scrollCmds' = IF startLoad THEN NewMessageEffect(messages, TRUE, d) ELSE { }
         /\ lastOp' = << "scroll", IF startLoad THEN "load" ELSE Null >>
  /\ seenCalls' = SeenOnScroll(d, isTabActive, messages)
  /\ UNCHANGED << messages, hasMoreMessages, isTabActive, hasScrolledToBottom,
                  effectsRun, scrollAttempts >>
  /\ UNCHANGED << mainVars, sendVars, hookVars, searchVars, vizVars >>

\* "Load More" button: onClick={loadMoreMessages}, disabled={loadingMore}.
loadMoreClicked ==
  /\ Mounted
  /\ effectsRun
  /\ hasMoreMessages
  /\ ~loadingMore
  /\ loadPhase' = "fetching"
  /\ scrollCmds' = NewMessageEffect(messages, TRUE, distance)
  /\ seenCalls' = None
  /\ lastOp' = << "loadMore", Null >>
  /\ UNCHANGED << messages, hasMoreMessages, atTop, distance, isTabActive,
                  hasScrolledToBottom, effectsRun, scrollAttempts >>
  /\ UNCHANGED << mainVars, sendVars, hookVars, searchVars, vizVars >>

\* useGroupChat: an older message by u is prepended, either in the same
\* render as the reset of loadingMore (batched) or in a render before it;
\* the two effects on the message list run.
olderLoaded(u, more, batched) ==
  /\ loadPhase = "fetching"
  /\ Len(messages) < MaxMsgs
  /\ messages' = << Msg(IF messages = << >> THEN 0 ELSE messages[1].id - 1, u) >>
                   \o messages
  /\ hasMoreMessages' = more
  /\ loadPhase' = IF batched THEN "idle" ELSE "prepended"
  /\ scrollCmds' = LengthEffect(messages', hasScrolledToBottom)
                     \cup NewMessageEffect(messages', ~batched, distance)
  /\ hasScrolledToBottom' = TRUE
  /\ seenCalls' = None
  /\ lastOp' = << "olderLoaded", Null >>
  /\ UNCHANGED << atTop, distance, isTabActive, effectsRun, scrollAttempts >>
  /\ UNCHANGED << mainVars, sendVars, hookVars, searchVars, vizVars >>

\* useGroupChat: loadingMore is reset in a render of its own (after the
\* prepend, or after a load that brought nothing); the effect on loadingMore
\* runs.
loadingMoreReset ==
  /\ loadingMore
  /\ loadPhase' = "idle"
  /\ scrollCmds' = NewMessageEffect(messages, FALSE, distance)
  /\ seenCalls' = None
  /\ lastOp' = << "loadingMoreReset", Null >>
  /\ UNCHANGED << messages, hasMoreMessages, atTop, distance, isTabActive,
                  hasScrolledToBottom, effectsRun, scrollAttempts >>
  /\ UNCHANGED << mainVars, sendVars, hookVars, searchVars, vizVars >>

\* useNotifications: the tab goes to the background or comes back.
tabVisibility ==
  /\ Mounted
  /\ effectsRun
  /\ isTabActive' = ~isTabActive
  /\ scrollCmds' = { }
  /\ seenCalls' = None
  /\ lastOp' = << "tab", Null >>
  /\ UNCHANGED << messages, hasMoreMessages, loadPhase, atTop, distance,
                  hasScrolledToBottom, effectsRun, scrollAttempts >>
  /\ UNCHANGED << mainVars, sendVars, hookVars, searchVars, vizVars >>

NextScroll ==
  \/ mountEffects
  \/ fetchDone
  \/ scrollAttempt
  \/ \E u \in Users, d \in Dists : messageArrives(u, d)
  \/ \E top \in BOOLEAN, d \in Dists : handleScroll(top, d)
  \/ loadMoreClicked
  \/ \E u \in Users, more \in BOOLEAN, batched \in BOOLEAN : olderLoaded(u, more, batched)
  \/ loadingMoreReset
  \/ tabVisibility

SpecScroll == InitScroll /\ [][NextScroll]_vars

\* ================================================================ properties
PipelineCalls == { i \in 1..Len(sendCalls) : sendCalls[i].origin = "send" }

C3_BlankSendIsNoOp ==
  [][ ( /\ lastOp'[1] \in { "sendRejected", "sendAccepted" }
        /\ Trim(inputValue) = << >>
        /\ selectedImage = Null )
      => UNCHANGED << mainVars, sendVars, hookVars, searchVars, vizVars, scrollVars >> ]_vars

\* a send of white-space-only text was refused while nothing was loading
C3_Witness ==
  /\ lastOp[1] = "sendRejected"
  /\ inputValue # << >>
  /\ Trim(inputValue) = << >>
  /\ selectedImage = Null
  /\ ~loading

\* C4: an accepted send clears input, image and reply state at once, hands
\* the trimmed pre-clear text, the image and the reply target (none unless
\* replying) to sendMessage; a failed send sets the error string and leaves
\* input, image and reply state as they are (nothing is restored).
C4_OptimisticClearNoRestore ==
  [][ /\ lastOp'[1] = "sendAccepted" =>
           /\ inputValue' = << >>
           /\ selectedImage' = Null
           /\ replyState' = IdleReply
           /\ Len(sendCalls') = Len(sendCalls) + 1
           /\ SubSeq(sendCalls', 1, Len(sendCalls)) = sendCalls
           /\ LET call == sendCalls'[Len(sendCalls')]
              IN  /\ call.origin = "send"
                  /\ call.text = Trim(inputValue)
                  /\ call.image = selectedImage
                  /\ call.reply = IF replyState.isReplying
                                  THEN replyState.originalMessage ELSE None
      /\ lastOp' = << "sendFailed", "send" >> =>
           /\ error' = SendErr
           /\ UNCHANGED << inputValue, selectedImage, replyState >>
    ]_vars

\* a pipeline send has failed and the draft is still cleared
C4_Witness ==
  /\ lastOp = << "sendFailed", "send" >>
  /\ error = SendErr
  /\ inputValue = << >>
  /\ selectedImage = Null
  /\ replyState = IdleReply

\* C5: whenever a sendMessage or searchMessages call issued by a handler of
\* the view fails, the error state is a non-null string afterwards.
C5_EveryFailureSurfaced ==
  [][ lastOp'[1] \in { "sendFailed", "searchFailed" } => error' # Null ]_vars

\* C6: reply state that is not replying has every other field null, and
\* cancel and an accepted send leave exactly the initial idle value.
C6_IdleReplyIsNull ==
  /\ [] ( ~replyState.isReplying =>
            /\ replyState.messageId = Null
            /\ replyState.messageSnippet = None
            /\ replyState.originalMessage = None )
  /\ [][ lastOp'[1] \in { "cancelReply", "sendAccepted" } =>
           replyState' = [ isReplying |-> FALSE, messageId |-> Null,
                           messageSnippet |-> None, originalMessage |-> None ] ]_vars

\* a started reply was cancelled
C6_Witness == lastOp[1] = "cancelReply" /\ ~replyState.isReplying

\* C7: after startReply the snippet is the content itself when it has at most
\* 100 characters, and its first 100 characters followed by "..." otherwise;
\* originalMessage holds the full content and messageId is originalMessage.id.
C7_SnippetTruncation ==
  lastOp[1] = "reply" =>
    LET content == lastOp[3]
        snippet == replyState.messageSnippet[1]
        original == replyState.originalMessage[1]
    IN  /\ replyState.isReplying
        /\ original.content = content
        /\ replyState.messageId = lastOp[2]
        /\ replyState.messageId = original.id
        /\ Len(content) <= 100 => snippet = content
        /\ Len(content) > 100 =>
             /\ Len(snippet) = 103
             /\ \A i \in 1..100 : snippet[i] = content[i]
             /\ \A i \in 101..103 : snippet[i] = "."

\* a reply to a message of exactly 100 characters has been started
C7_Witness ==
  /\ lastOp[1] = "reply"
  /\ Len(lastOp[3]) = 100
  /\ replyState.messageSnippet = Some(lastOp[3])

\* C8: a message becomes ready only from the generating state.
C8_ReadyOnlyFromGenerating ==
  [][ \A m \in MsgIds :
        ( visualizationStates'[m].hasVisualization
          /\ ~visualizationStates[m].hasVisualization )
        => visualizationStates[m].isGenerating ]_vars

\* C9: at most one generateVisualization call per message is unsettled, and a
\* request for a message that is generating starts no further call.
C9_OneGenerationPerMessage == \A m \in MsgIds : genCalls[m] <= 1

\* C10: viewing a message whose visualization state is ready shows it.
C10_ViewReadyShows ==
  [][ \A m \in MsgIds :
        ( lastOp' = << "view", m >> /\ visualizationStates[m].hasVisualization )
        => currentVisualization' = m ]_vars

\* C13: a search with a blank query changes nothing and starts no call; a
\* search that succeeds replaces the results and opens the results surface;
\* one that fails sets the error and leaves results and surface as they were.
C13_SearchOutcomes ==
  [][ /\ ( /\ lastOp'[1] \in { "search", "searchIgnored" }
           /\ Trim(lastOp'[2]) = << >> )
         => UNCHANGED << mainVars, sendVars, hookVars, searchVars, vizVars, scrollVars >>
      /\ lastOp'[1] = "searchResolved"
         => searchResults' = lastOp'[3] /\ showSearchResults'
      /\ lastOp'[1] = "searchFailed"
         => /\ error' = SearchErr
            /\ UNCHANGED << searchResults, showSearchResults >>
    ]_vars

\* a search failed while earlier results were on display
C13_Witness ==
  /\ lastOp[1] = "searchFailed"
  /\ searchResults # << >>
  /\ showSearchResults
  /\ error = SearchErr

\* The outcomes of a send and a search settling in either order.
SendThenSearch(i, okSend, j, okSearch, r) ==
  AfterSearchSettled(AfterSendSettled(ChatState, i, okSend), j, okSearch, r)
SearchThenSend(i, okSend, j, okSearch, r) ==
  AfterSendSettled(AfterSearchSettled(ChatState, j, okSearch, r), i, okSend)

\* C14: an unsettled send and an unsettled search leave the same state
\* whichever of the two settles first, for every pair of outcomes.
C14_SendSearchCommute ==
  \A i \in PipelineCalls, j \in 1..Len(searchCalls),
     okSend \in BOOLEAN, okSearch \in BOOLEAN, r \in ResultSets :
    SendThenSearch(i, okSend, j, okSearch, r)
      = SearchThenSend(i, okSend, j, okSearch, r)

\* C14 as amended: the same, except that when both fail the error string is
\* that of the one that failed last.
C14_SendSearchCommuteButError ==
  \A i \in PipelineCalls, j \in 1..Len(searchCalls),
     okSend \in BOOLEAN, okSearch \in BOOLEAN, r \in ResultSets :
    LET a == SendThenSearch(i, okSend, j, okSearch, r)
        b == SearchThenSend(i, okSend, j, okSearch, r)
    IN  /\ [ a EXCEPT !.error = Null ] = [ b EXCEPT !.error = Null ]
        /\ (okSend \/ okSearch) => a.error = b.error
        /\ (~okSend /\ ~okSearch) => a.error = SearchErr /\ b.error = SendErr

\* a pipeline send and a search are unsettled at the same time
C14_Witness == PipelineCalls # { } /\ searchCalls # << >>

\* C15: loadConversation, startNewConversation and switchToPrivate leave the
\* sidebar and the team menu closed and hand their payload over.
C15_OverlaysClosedPayloadHanded ==
  [][ /\ lastOp'[1] \in { "loadConversation", "switchToPrivate" }
         => /\ ~sidebarOpen'
            /\ ~showTeamMenu'
            /\ conversationToLoad' = lastOp'[2]
      /\ lastOp'[1] = "startNewConversation"
         => /\ ~sidebarOpen'
            /\ ~showTeamMenu'
            /\ shouldStartNewChat'
    ]_vars

\* C17: no message is generating and ready at once, and a ready message has
\* content.
C17_GeneratingExcludesReady ==
  \A m \in MsgIds :
    /\ ~(visualizationStates[m].isGenerating /\ visualizationStates[m].hasVisualization)
    /\ visualizationStates[m].hasVisualization => visualizationStates[m].content # Null

\* a message is ready while an overlapping request for it is still unsettled
C17_Witness ==
  \E m \in MsgIds : visualizationStates[m].hasVisualization /\ genCalls[m] > 0

\* C18: isSearching is true whenever a searchMessages call is unsettled.
C18_BusyWhileSearching == searchCalls # << >> => isSearching

\* C19: when every call settles, the search busy flag and every message's
\* isGenerating eventually become false, and with no call of a kind unsettled
\* its flag is false.
C19_FlagsComeDown ==
  /\ isSearching ~> ~isSearching
  /\ \A m \in MsgIds :
       visualizationStates[m].isGenerating ~> ~visualizationStates[m].isGenerating
  /\ [](searchCalls = << >> => ~isSearching)
  /\ [](\A m \in MsgIds : genCalls[m] = 0 => ~visualizationStates[m].isGenerating)

\* a search and a generation have both failed and nothing is left unsettled
C19_Witness ==
  /\ error = SearchErr
  /\ searchCalls = << >>
  /\ ~isSearching
  /\ \E m \in MsgIds : visualizationStates[m] = Failed
  /\ \A m \in MsgIds : genCalls[m] = 0 /\ ~visualizationStates[m].isGenerating

\* C11: when a message is appended to a non-empty list while no older
\* messages are being loaded, a scroll command is issued only if the viewport
\* was within 100 units of the bottom or the message is the current user's.
C11_ScrollOnlyNearOrOwn ==
  [][ ( /\ lastOp'[1] = "messageArrives"
        /\ messages # << >>
        /\ ~loadingMore
        /\ scrollCmds' # { } )
      => (distance < NearBottom \/ lastOp'[2] = CurrentUser)
    ]_vars

\* C12: no step of a load of older messages (its start from the top of the
\* container or from the button, the prepend, the reset of loadingMore) issues
\* a scroll command.
C12_LoadOlderNeverScrolls ==
  [][ ( \/ lastOp' = << "scroll", "load" >>
        \/ lastOp'[1] \in { "loadMore", "olderLoaded", "loadingMoreReset" } )
      => scrollCmds' = { }
    ]_vars

\* C16: markAsSeen is called only with the viewport within 50 units of the
\* bottom, the tab active and messages present, with the newest message's id.
C16_SeenOnlyAtBottom ==
  [][ (seenCalls' # None /\ ~UNCHANGED scrollVars)
      => /\ distance' < AtBottom
         /\ isTabActive'
         /\ messages' # << >>
         /\ seenCalls' = Some(NewestId(messages'))
    ]_vars

\* C16 as amended: markAsSeen is called only with the tab active and
\* messages present, with the newest message's id, either by the mount effect
\* or by a scroll event that leaves the viewport within 50 units of the bottom.
C16_SeenAtBottomOrOnMount ==
  [][ (seenCalls' # None /\ ~UNCHANGED scrollVars)
      => /\ isTabActive'
         /\ messages' # << >>
         /\ seenCalls' = Some(NewestId(messages'))
         /\ \/ lastOp'[1] = "mountEffects"
            \/ lastOp'[1] = "scroll" /\ distance' < AtBottom
    ]_vars

\* the mount effect marked the newest message seen away from the bottom
C16_Witness ==
  /\ lastOp[1] = "mountEffects"
  /\ seenCalls # None
  /\ distance >= AtBottom
  /\ isTabActive

====
